---- MODULE Spec2Model ----
(***************************************************************************)
(* stale-pr-bot (src/main.go): a batch job that scans the open pull        *)
(* requests of one repository, warns the authors of stale ones by email,   *)
(* marks them with the label 'stale-warning' and closes them later.        *)
(*                                                                         *)
(* The model holds the remote repository (labels, state and last-updated   *)
(* time of every pull request), the wall clock, and one run of main():     *)
(* the fetched snapshot, the cutoff and the position of the loop.  Time is *)
(* counted in whole days.  Strings are tuples of one-character strings, so *)
(* that strings.ToLower and strings.EqualFold are computed, not assumed.   *)
(*                                                                         *)
(* Every remote call (removeLabel, closePR, addWarningLabel, sendEmail)    *)
(* succeeds or fails nondeterministically; a failed call changes nothing.  *)
(* The environment: the clock advances at any point; between two runs an   *)
(* author updates a pull request and a maintainer applies the opt-out      *)
(* label.  Only the bot applies or removes 'stale-warning'.                *)
(***************************************************************************)
EXTENDS Integers, Sequences, FiniteSets, TLC

\* ------------------------------------------------------------------ bounds
NumPRs == 2
MaxTime == 3
MaxDays == 2
MaxLogin == 3

PRNumbers == 1..NumPRs

\* ----------------------------------------------------------------- strings
Upper == <<"A","B","C","D","E","F","G","H","I","J","K","L","M",
           "N","O","P","Q","R","S","T","U","V","W","X","Y","Z">>
Lower == <<"a","b","c","d","e","f","g","h","i","j","k","l","m",
           "n","o","p","q","r","s","t","u","v","w","x","y","z">>

\* unicode.ToLower on one (ASCII) character
ToLowerChar(c) ==
    IF \E k \in DOMAIN Upper : Upper[k] = c
    THEN Lower[CHOOSE k \in DOMAIN Upper : Upper[k] = c]
    ELSE c

\* strings.ToLower
ToLower(s) == [k \in DOMAIN s |-> ToLowerChar(s[k])]

\* strings.EqualFold (simple case folding; ASCII)
EqualFold(s, t) ==
    /\ Len(s) = Len(t)
    /\ \A k \in DOMAIN s : ToLowerChar(s[k]) = ToLowerChar(t[k])

Empty == << >>
DoNotStale == <<"d","o"," ","n","o","t"," ","s","t","a","l","e">>
DoNotStaleMixed == <<"D","o"," ","N","o","t"," ","S","t","a","l","e">>
StaleWarning == <<"s","t","a","l","e","-","w","a","r","n","i","n","g">>
ExampleCom == <<"e","x","a","m","p","l","e",".","c","o","m">>
PublicEmail == <<"a","@","b",".","c","o","m">>
Bob == <<"B","o","b">>

\* the names under which a maintainer applies the opt-out label
OptOutNames == {DoNotStale, DoNotStaleMixed}

\* the authors of the pull requests: one with a public email, one with a
\* handle only, one with neither (a deleted account: GetUser() is nil)
Users == << [login |-> Bob, email |-> Empty],
            [login |-> Empty, email |-> Empty],
            [login |-> Bob, email |-> PublicEmail] >>

\* the author of pull request p
Author(p) == Users[((p - 1) % Len(Users)) + 1]

\* ------------------------------------------------------------------- state
VARIABLES
    now,                 \* the wall clock (time.Now()), in days
    daysInactive,        \* *daysInactiveFlag
    warningPeriod,       \* *warningPeriodFlag
    fallbackEmailDomain, \* the global of that name
    prs,                 \* the repository host: PR number -> its remote state
    pc,                  \* where main() is: idle, loop, done, fatal
    openPRs,             \* the snapshot getOpenPRs returned
    staleCutoff,         \* main's staleCutoff
    idx,                 \* position of the range loop in openPRs (1-based)
    last,                \* the loop iteration just executed: snapshot, time, remote calls
    processed,           \* numbers of the PRs this run has processed, in order
    warnedAt,            \* PR -> when the warning was sent (label not since removed), or -1
    resolved             \* the last result of getEmailFromGitHubUser (resolver runs)

vars == <<now, daysInactive, warningPeriod, fallbackEmailDomain, prs, pc, openPRs,
          staleCutoff, idx, last, processed, warnedAt, resolved>>

\* ----------------------------------------------------------------- helpers
\* a value no reading of the clock takes
NoTime == 0 - 1

\* one remote call as the run issued it: its kind, its recipient (emails only)
\* and whether it returned without error
Call(op, to, ok) == [op |-> op, to |-> to, ok |-> ok]

Ops(calls) == [k \in DOMAIN calls |-> calls[k].op]
Issued(calls, op) == \E k \in DOMAIN calls : calls[k].op = op
Succeeded(calls, op) == \E k \in DOMAIN calls : calls[k].op = op /\ calls[k].ok
CountOp(calls, op) == Cardinality({k \in DOMAIN calls : calls[k].op = op})

\* hasLabel comparing the names exactly (== instead of strings.EqualFold)
hasLabelExact(pr, labelName) == labelName \in pr.labels

\* hasLabel: some label of the snapshot equals labelName up to case
hasLabel(pr, labelName) == \E label \in pr.labels : EqualFold(label, labelName)

\* timeSinceLabel: time.Since(pr.GetUpdatedAt()), read at time t
timeSinceLabel(pr, t) == t - pr.updatedAt

\* getEmailFromGitHubUser: the public email, else <lowercased login>@<domain>
getEmailFromGitHubUser(user, domain) ==
    IF user.email /= Empty
    THEN user.email
    ELSE ToLower(user.login) \o <<"@">> \o domain

\* sendEmail: one delivery attempt; it fails or succeeds as the transport does
sendEmail(op, toEmail, ok) == [calls |-> <<Call(op, toEmail, ok)>>, err |-> ~ok]

\* warnPRAuthor: no send and no error for an empty address, else one send
warnPRAuthor(pr, domain, ok) ==
    LET emailAddress == getEmailFromGitHubUser(pr.user, domain)
    IN  IF emailAddress = Empty
        THEN [calls |-> << >>, err |-> FALSE]
        ELSE sendEmail("sendWarning", emailAddress, ok)

\* notifyPRClosure: the same, with the closure template
notifyPRClosure(pr, domain, ok) ==
    LET emailAddress == getEmailFromGitHubUser(pr.user, domain)
    IN  IF emailAddress = Empty
        THEN [calls |-> << >>, err |-> FALSE]
        ELSE sendEmail("sendClosure", emailAddress, ok)

\* the opt-out branch of the loop body (main.go 146-158)
OptOutBranch(pr, ok1) ==
    IF hasLabel(pr, StaleWarning)
    THEN <<Call("removeLabel", Empty, ok1)>>
    ELSE << >>

\* the escalation with the closure email sent whether or not the close succeeded
EscalateBranchNotifyAnyway(pr, t, period, domain, ok1, ok2) ==
    IF timeSinceLabel(pr, t) > period
    THEN <<Call("closePR", Empty, ok1)>> \o notifyPRClosure(pr, domain, ok2).calls
    ELSE << >>

\* the escalation with the warning period compared by >= instead of >
EscalateBranchAtPeriod(pr, t, period, domain, ok1, ok2) ==
    IF timeSinceLabel(pr, t) >= period
    THEN IF ~ok1
         THEN <<Call("closePR", Empty, FALSE)>>
         ELSE <<Call("closePR", Empty, TRUE)>> \o notifyPRClosure(pr, domain, ok2).calls
    ELSE << >>

\* stale PR that already carries the warning label (main.go 163-183)
EscalateBranch(pr, t, period, domain, ok1, ok2) ==
    IF timeSinceLabel(pr, t) > period
    THEN IF ~ok1
         THEN <<Call("closePR", Empty, FALSE)>>
         ELSE <<Call("closePR", Empty, TRUE)>> \o notifyPRClosure(pr, domain, ok2).calls
    ELSE << >>

\* the warning with the label added whatever the outcome of the send
WarnBranchAlwaysLabels(pr, domain, ok1, ok2) ==
    warnPRAuthor(pr, domain, ok1).calls \o <<Call("addWarningLabel", Empty, ok2)>>

\* the warning with the test of the send's error inverted
WarnBranchLabelsOnFailure(pr, domain, ok1, ok2) ==
    LET w == warnPRAuthor(pr, domain, ok1)
    IN  IF ~w.err
        THEN w.calls
        ELSE w.calls \o <<Call("addWarningLabel", Empty, ok2)>>

\* stale PR without the warning label (main.go 184-196)
WarnBranch(pr, domain, ok1, ok2) ==
    LET w == warnPRAuthor(pr, domain, ok1)
    IN  IF w.err
        THEN w.calls
        ELSE w.calls \o <<Call("addWarningLabel", Empty, ok2)>>

\* active PR (main.go 197-209)
ActiveBranch(pr, ok1) ==
    IF hasLabel(pr, StaleWarning)
    THEN <<Call("removeLabel", Empty, ok1)>>
    ELSE << >>

\* staleness with a last-updated time equal to the cutoff counted as stale
IsStaleInclusive(pr, cutoff) == pr.updatedAt <= cutoff

\* is the PR stale (main.go 161)
IsStale(pr, cutoff) == pr.updatedAt < cutoff

\* one iteration of the loop of main: the remote calls it issues, in order,
\* for the snapshot pr, the cutoff fixed before the loop and the clock t;
\* ok1 and ok2 are the outcomes of the first and second remote call
LoopBody(pr, cutoff, t, period, domain, ok1, ok2) ==
    IF hasLabel(pr, DoNotStale)
    THEN OptOutBranch(pr, ok1)
    ELSE IF IsStale(pr, cutoff)
         THEN IF hasLabel(pr, StaleWarning)
              THEN EscalateBranch(pr, t, period, domain, ok1, ok2)
              ELSE WarnBranch(pr, domain, ok1, ok2)
         ELSE ActiveBranch(pr, ok1)

\* the effect of the successful calls on the remote state of one PR
ApplyCalls(remote, calls) ==
    [remote EXCEPT
        !.labels = IF Succeeded(calls, "removeLabel")
                   THEN {l \in @ : ~EqualFold(l, StaleWarning)}
                   ELSE IF Succeeded(calls, "addWarningLabel")
                        THEN @ \cup {StaleWarning}
                        ELSE @,
        !.state  = IF Succeeded(calls, "closePR") THEN "closed" ELSE @]

\* getOpenPRs: the open PRs, by number, with the labels, time and author
\* they have when the list is fetched
RECURSIVE FetchFrom(_, _)
FetchFrom(remote, n) ==
    IF n > NumPRs THEN << >>
    ELSE (IF remote[n].state = "open"
          THEN <<[number |-> n, updatedAt |-> remote[n].updatedAt,
                  labels |-> remote[n].labels, user |-> remote[n].user]>>
          ELSE << >>) \o FetchFrom(remote, n + 1)

getOpenPRs(remote) == FetchFrom(remote, 1)

Numbers(list) == [k \in DOMAIN list |-> list[k].number]

NoIteration == [pr |-> [number |-> 0, updatedAt |-> 0, labels |-> {},
                        user |-> [login |-> Empty, email |-> Empty]],
                cutoff |-> 0, at |-> 0, calls |-> << >>, warnedBefore |-> NoTime]
NoResolve == [user |-> [login |-> Empty, email |-> Empty], done |-> FALSE,
              result |-> Empty, warn |-> [calls |-> << >>, err |-> FALSE]]

\* ------------------------------------------------------------------- Init
Init ==
    /\ now = 0
    /\ daysInactive \in 1..MaxDays
    /\ warningPeriod \in 1..MaxDays
    /\ fallbackEmailDomain = ExampleCom
    /\ prs = [p \in PRNumbers |-> [updatedAt |-> 0, labels |-> {}, state |-> "open",
                                  user |-> Author(p)]]
    /\ pc = "idle"
    /\ openPRs = << >>
    /\ staleCutoff = 0
    /\ idx = 1
    /\ last = NoIteration
    /\ processed = << >>
    /\ warnedAt = [p \in PRNumbers |-> NoTime]
    /\ resolved = NoResolve

config == <<daysInactive, warningPeriod, fallbackEmailDomain>>

\* ------------------------------------------------------------ the run
\* main.go 123-137: the list is fetched; an empty list ends the run, otherwise
\* the cutoff is fixed once, before the loop
FetchOpenPRs ==
    /\ pc = "idle"
    /\ openPRs' = getOpenPRs(prs)
    /\ pc' = IF Len(openPRs') = 0 THEN "done" ELSE "loop"
    /\ staleCutoff' = IF Len(openPRs') = 0 THEN 0 ELSE now - daysInactive
    /\ idx' = 1
    /\ processed' = << >>
    /\ last' = NoIteration
    /\ UNCHANGED <<now, config, prs, warnedAt, resolved>>

\* main.go 125-128: the listing fails and log.Fatalf ends the process
FetchFails ==
    /\ pc = "idle"
    /\ pc' = "fatal"
    /\ last' = NoIteration
    /\ UNCHANGED <<now, config, prs, openPRs, staleCutoff, idx, processed,
                   warnedAt, resolved>>

\* the loop left at the first call that returns an error
AfterIterationAbort(calls) ==
    IF idx = Len(openPRs) \/ (\E k \in DOMAIN calls : ~calls[k].ok)
    THEN "done" ELSE "loop"

\* the range loop after an iteration: the errors of the calls are only
\* printed, and the loop ends when the list is exhausted
AfterIteration(calls) == IF idx = Len(openPRs) THEN "done" ELSE "loop"

\* main.go 140-210: one iteration of the loop, with every call it makes
ProcessPR ==
    /\ pc = "loop"
    /\ idx <= Len(openPRs)
    /\ \E ok1, ok2 \in BOOLEAN :
         LET pr == openPRs[idx]
             n == pr.number
             calls == LoopBody(pr, staleCutoff, now, warningPeriod,
                               fallbackEmailDomain, ok1, ok2)
         IN  /\ pc' = AfterIteration(calls)
             /\ prs' = [prs EXCEPT ![n] = ApplyCalls(@, calls)]
             /\ last' = [pr |-> pr, cutoff |-> staleCutoff, at |-> now,
                         calls |-> calls, warnedBefore |-> warnedAt[n]]
             /\ processed' = Append(processed, n)
             /\ warnedAt' = [warnedAt EXCEPT ![n] =
                                IF Succeeded(calls, "sendWarning") THEN now
                                ELSE IF Succeeded(calls, "removeLabel") THEN NoTime ELSE @]
    /\ idx' = idx + 1
    /\ UNCHANGED <<now, config, openPRs, staleCutoff, resolved>>

\* main returns, or log.Fatalf has ended it: the process and its locals are gone
Exit ==
    /\ pc \in {"done", "fatal"}
    /\ pc' = "idle"
    /\ openPRs' = << >>
    /\ staleCutoff' = 0
    /\ idx' = 1
    /\ processed' = << >>
    /\ last' = NoIteration
    /\ UNCHANGED <<now, config, prs, warnedAt, resolved>>

\* ------------------------------------------------------- the environment
\* the clock advances, at any point of a run or between runs
Tick ==
    /\ now < MaxTime
    /\ now' = now + 1
    /\ last' = NoIteration
    /\ UNCHANGED <<config, prs, pc, openPRs, staleCutoff, idx, processed,
                   warnedAt, resolved>>

\* between two runs the author pushes or comments: the host sets the
\* last-updated time
Touch(p) ==
    /\ pc = "idle"
    /\ prs[p].state = "open"
    /\ prs[p].updatedAt < now
    /\ prs' = [prs EXCEPT ![p].updatedAt = now]
    /\ last' = NoIteration
    /\ UNCHANGED <<now, config, pc, openPRs, staleCutoff, idx, processed,
                   warnedAt, resolved>>

\* between two runs a maintainer applies the opt-out label, under either spelling
AddOptOut(p, name) ==
    /\ pc = "idle"
    /\ prs[p].state = "open"
    /\ \A l \in prs[p].labels : ~EqualFold(l, DoNotStale)
    /\ prs' = [prs EXCEPT ![p].labels = @ \cup {name}]
    /\ last' = NoIteration
    /\ UNCHANGED <<now, config, pc, openPRs, staleCutoff, idx, processed,
                   warnedAt, resolved>>

Next ==
    \/ FetchOpenPRs
    \/ FetchFails
    \/ ProcessPR
    \/ Exit
    \/ Tick
    \/ \E p \in PRNumbers : Touch(p)
    \/ \E p \in PRNumbers, name \in OptOutNames : AddOptOut(p, name)

Spec == Init /\ [][Next]_vars

\* ------------------------------------------------- the recipient resolver
\* getEmailFromGitHubUser and warnPRAuthor applied to authors drawn from
\* bounded sets: every login of at most MaxLogin characters over LoginChars,
\* with or without a public email, under either fallback domain
LoginChars == {"B", "o", "b"}
Logins == UNION {[1..k -> LoginChars] : k \in 0..MaxLogin}
Emails == {Empty, PublicEmail}
Domains == {ExampleCom, Empty}

ResolverInit ==
    /\ now = 0
    /\ daysInactive = 1
    /\ warningPeriod = 1
    /\ fallbackEmailDomain \in Domains
    /\ prs = [p \in PRNumbers |-> [updatedAt |-> 0, labels |-> {}, state |-> "open",
                                  user |-> Author(p)]]
    /\ pc = "idle"
    /\ openPRs = << >>
    /\ staleCutoff = 0
    /\ idx = 1
    /\ last = NoIteration
    /\ processed = << >>
    /\ warnedAt = [p \in PRNumbers |-> NoTime]
    /\ resolved = NoResolve

\* warnPRAuthor is called for a pull request of the given author
Resolve(login, email, ok) ==
    LET user == [login |-> login, email |-> email]
        pr == [number |-> 1, updatedAt |-> 0, labels |-> {}, user |-> user]
    IN  /\ resolved' = [user |-> user, done |-> TRUE,
                        result |-> getEmailFromGitHubUser(user, fallbackEmailDomain),
                        warn |-> warnPRAuthor(pr, fallbackEmailDomain, ok)]
        /\ UNCHANGED <<now, config, prs, pc, openPRs, staleCutoff, idx, last,
                       processed, warnedAt>>

ResolverNext == \E login \in Logins, email \in Emails, ok \in BOOLEAN :
                    Resolve(login, email, ok)

ResolverSpec == ResolverInit /\ [][ResolverNext]_vars

\* ------------------------------------------------------------- the claims
\* The predicates of the claims are stated on the snapshot directly, not
\* through the operators that model the code.

\* the snapshot carries a label whose lowercased name is `name`
Carries(pr, name) == \E l \in pr.labels : ToLower(l) = name
\* the pull request carries the warning label on the host
Labelled(p) == StaleWarning \in prs[p].labels
\* an iteration of the loop has just been executed
Iterated == last.pr.number /= 0
\* the kinds of the calls of that iteration
LastOps == Ops(last.calls)
\* the elapsed time the iteration measured
LastElapsed == last.at - last.pr.updatedAt
\* the iteration found the pull request stale
LastStale == last.pr.updatedAt < last.cutoff
\* the iteration left the remote pull request as the snapshot shows it
LastUntouched ==
    /\ prs[last.pr.number].labels = last.pr.labels
    /\ prs[last.pr.number].state = "open"

\* C1: a pull request whose snapshot carries 'do not stale' (in any case) is
\* never closed and never emailed; the warning label is removed by exactly one
\* removeLabel call if the snapshot carries it, and nothing is done otherwise.
C1_OptOutWins ==
    (Iterated /\ Carries(last.pr, DoNotStale)) =>
        /\ ~Issued(last.calls, "closePR")
        /\ ~Issued(last.calls, "sendWarning")
        /\ ~Issued(last.calls, "sendClosure")
        /\ ~Issued(last.calls, "addWarningLabel")
        /\ IF Carries(last.pr, StaleWarning)
           THEN LastOps = <<"removeLabel">>
           ELSE last.calls = << >> /\ LastUntouched

\* C1 witness: a stale pull request labelled 'Do Not Stale' and
\* 'stale-warning' has had its warning label removed, by the only call made
C1_Witness ==
    /\ Iterated
    /\ DoNotStaleMixed \in last.pr.labels
    /\ StaleWarning \in last.pr.labels
    /\ LastStale
    /\ LastOps = <<"removeLabel">>
    /\ last.calls[1].ok
    /\ ~Labelled(last.pr.number)

C3_CloseThenNotify ==
    (Iterated /\ LastStale /\ ~Carries(last.pr, DoNotStale)
              /\ Carries(last.pr, StaleWarning)
              /\ LastElapsed > warningPeriod) =>
        /\ last.calls /= << >>
        /\ LastOps[1] = "closePR"
        /\ IF last.calls[1].ok
           THEN /\ LastOps = <<"closePR", "sendClosure">>
                /\ prs[last.pr.number].state = "closed"
           ELSE /\ LastOps = <<"closePR">>
                /\ prs[last.pr.number].state = "open"
        /\ prs[last.pr.number].labels = last.pr.labels

\* C3 witness: the close succeeded, the closure email failed, and the pull
\* request is closed
C3_Witness ==
    /\ Iterated /\ LastStale /\ LastElapsed > warningPeriod
    /\ Carries(last.pr, StaleWarning) /\ ~Carries(last.pr, DoNotStale)
    /\ LastOps = <<"closePR", "sendClosure">>
    /\ ~last.calls[2].ok
    /\ prs[last.pr.number].state = "closed"

\* C4: a pull request without the opt-out label and updated at or after the
\* cutoff is neither closed, nor emailed, nor labelled; 'stale-warning' is
\* removed by one call if and only if the snapshot carries it.
C4_ActiveOnlyUnlabels ==
    (Iterated /\ ~Carries(last.pr, DoNotStale) /\ last.pr.updatedAt >= last.cutoff) =>
        /\ IF Carries(last.pr, StaleWarning)
           THEN LastOps = <<"removeLabel">>
           ELSE last.calls = << >> /\ LastUntouched
        /\ prs[last.pr.number].state = "open"

\* C4 witness: a pull request updated exactly at the cutoff, carrying the
\* warning label, has the label removed
C4_Witness ==
    /\ Iterated /\ ~Carries(last.pr, DoNotStale)
    /\ last.pr.updatedAt = last.cutoff
    /\ Carries(last.pr, StaleWarning)
    /\ LastOps = <<"removeLabel">>
    /\ last.calls[1].ok
    /\ ~Labelled(last.pr.number)

\* C5: a stale pull request that carries the warning label and whose elapsed
\* time, measured when it is processed, is at most the warning period is left
\* alone: no call is made and the remote pull request is unchanged.
C5_WithinGraceNoOp ==
    (Iterated /\ LastStale /\ ~Carries(last.pr, DoNotStale)
              /\ Carries(last.pr, StaleWarning)
              /\ LastElapsed <= warningPeriod) =>
        /\ last.calls = << >>
        /\ LastUntouched

\* C5 witness: such a pull request, with the elapsed time equal to the warning
\* period, has been processed
C5_Witness ==
    /\ Iterated /\ LastStale /\ ~Carries(last.pr, DoNotStale)
    /\ Carries(last.pr, StaleWarning)
    /\ LastElapsed = warningPeriod
    /\ last.calls = << >>

\* the iteration found the pull request active or opted out
LastFresh == Carries(last.pr, DoNotStale) \/ ~LastStale

\* C6 as stated: a pull request carries 'stale-warning' if and only if a
\* warning was attempted for it and no run has since found it active or
\* opted out.  No label and no attempt exist at the start, and only the
\* processing of a pull request changes either side, so the equivalence is
\* stated for the pull request just processed: it carries the label if and
\* only if this iteration attempted a warning, or it carried the label before
\* (its warning attempted earlier) and this run did not find it active or
\* opted out.
C6_LabelIffWarningAttempted ==
    Iterated =>
        (Labelled(last.pr.number) <=>
            \/ Issued(last.calls, "sendWarning")
            \/ (Carries(last.pr, StaleWarning) /\ ~LastFresh))

\* C6 amended: a pull request carries 'stale-warning' only if a warning was
\* sent for it successfully and no removeLabel call has succeeded since.
C6_LabelOnlyAfterWarningSent ==
    \A p \in PRNumbers : Labelled(p) => warnedAt[p] /= NoTime

\* C6 witness: a labelled pull request whose warning was sent, and next to it
\* one whose warning has just been attempted, has failed and has left no label
C6_Witness ==
    \E p \in PRNumbers :
        /\ Labelled(p) /\ warnedAt[p] /= NoTime
        /\ Iterated /\ last.pr.number /= p
        /\ Issued(last.calls, "sendWarning")
        /\ ~Succeeded(last.calls, "sendWarning")
        /\ ~Labelled(last.pr.number) /\ warnedAt[last.pr.number] = NoTime

\* C7: while a pull request stays open, stale and without the opt-out label,
\* its last-updated time unchanged, at most one warning email is sent to its
\* author successfully: a warning is sent successfully to a pull request that
\* was sent one before only if it has been updated since.
C7_OneTimeWarning ==
    (Iterated /\ Succeeded(last.calls, "sendWarning")
              /\ last.warnedBefore /= NoTime) =>
        last.pr.updatedAt >= last.warnedBefore

\* C8: a pull request is closed no earlier than warningPeriod days after its
\* warning was sent.
C8_ClosedAfterGrace ==
    (Iterated /\ Succeeded(last.calls, "closePR")
              /\ warnedAt[last.pr.number] /= NoTime) =>
        last.at >= warnedAt[last.pr.number] + warningPeriod

\* C9: the pull requests of the fetched list are processed once each, in list
\* order, whatever the outcome of the calls, and the run ends when and only
\* when the list is exhausted.
C9_EveryPRProcessedInOrder ==
    /\ pc = "loop" =>
          /\ idx <= Len(openPRs)
          /\ processed = SubSeq(Numbers(openPRs), 1, idx - 1)
    /\ pc = "done" => processed = Numbers(openPRs)

\* C9 witness: the run has ended after processing both pull requests, the
\* warning send for the first having failed and a call for the second too
C9_Witness ==
    /\ pc = "done"
    /\ processed = <<1, 2>>
    /\ openPRs[1].updatedAt < staleCutoff /\ openPRs[1].labels = {}
    /\ ~Labelled(1) /\ warnedAt[1] = NoTime
    /\ Iterated /\ last.pr.number = 2
    /\ last.calls /= << >> /\ ~last.calls[1].ok

\* C10: the resolver returns the public email if there is one, otherwise
\* <lowercased handle>@<fallback domain>; the result is empty only for an
\* empty handle, and for an empty handle without a public email it is empty,
\* so that warnPRAuthor sends nothing and returns no error.
C10_ResolverContract ==
    resolved.done =>
        /\ resolved.user.email /= Empty => resolved.result = resolved.user.email
        /\ (resolved.user.email = Empty /\ resolved.user.login /= Empty) =>
              resolved.result =
                 ToLower(resolved.user.login) \o <<"@">> \o fallbackEmailDomain
        /\ resolved.result = Empty => resolved.user.login = Empty
        /\ (resolved.user.email = Empty /\ resolved.user.login = Empty) =>
              /\ resolved.result = Empty
              /\ resolved.warn.calls = << >>
              /\ ~resolved.warn.err


====
